---- MODULE Spec2Model ----
(***************************************************************************)
(* Model of kerastuner/applications/hyperception/hyperception.py: the      *)
(* hyperparameter resolution, the layer-by-layer graph assembly and the    *)
(* optimizer selection of _hyperception, the single-value entry point      *)
(* _hyperception_single and the functools.partial wrappers.                *)
(*                                                                         *)
(* A hyperparameter mapping (a Python dict) is a function whose DOMAIN is  *)
(* its key set.  Learning rates, momenta and decays are integers standing  *)
(* for the floats of the program; the program only passes them on.         *)
(***************************************************************************)
EXTENDS Integers, Sequences, FiniteSets, TLC

\* Largest num_residual_blocks and num_dense_layers value a caller overrides with.
MaxBlocks == 2
MaxDense == 2

\* The count of finished calls is kept up to this number.
MaxCalls == 1

----------------------------------------------------------------------------
(* Python dicts *)

EmptyDict == [k \in {} |-> 0]

\* d.update(o): every key of o is written into d, the other keys of d stay.
Update(d, o) == [k \in DOMAIN d \cup DOMAIN o |-> IF k \in DOMAIN o THEN o[k] ELSE d[k]]

\* The dict d without the keys of ks.
Without(d, ks) == [k \in DOMAIN d \ ks |-> d[k]]

----------------------------------------------------------------------------
(* The hyperparameter providers of hparams.py *)

ArchKeys == {"kernel_size", "initial_strides", "activation", "optimizer",
             "conv2d_num_filters", "sep_num_filters", "num_residual_blocks",
             "dense_merge_type", "num_dense_layers", "dropout_rate", "dense_use_bn"}

RequiredKeys == ArchKeys \cup {"learning_rate"}

SupportedOptimizers == {"adam", "sgd", "rmsprop"}

\* The sub-parameters each optimizer variant needs beside the architecture keys.
SubKeys(opt) ==
    CASE opt = "adam" -> {"learning_rate"}
      [] opt = "sgd" -> {"learning_rate", "momentum", "learning_rate_decay"}
      [] opt = "rmsprop" -> {"learning_rate", "learning_rate_decay"}
      [] OTHER -> {}

\* One point of the search space: every required key, the sub-parameters of
\* its optimizer, and the keys of `more` beside them.
HparamsPoint(opt, more, blocks, denses, merge, convf, sepf, lr) ==
    [k \in RequiredKeys \cup SubKeys(opt) \cup more |->
        CASE k = "kernel_size" -> <<3, 3>>
          [] k = "initial_strides" -> <<2, 2>>
          [] k = "activation" -> "relu"
          [] k = "optimizer" -> opt
          [] k = "conv2d_num_filters" -> convf
          [] k = "sep_num_filters" -> sepf
          [] k = "num_residual_blocks" -> blocks
          [] k = "dense_merge_type" -> merge
          [] k = "num_dense_layers" -> denses
          [] k = "dropout_rate" -> 0
          [] k = "dense_use_bn" -> TRUE
          [] k = "learning_rate" -> lr
          [] k = "momentum" -> 9
          [] k = "learning_rate_decay" -> 0]

\* The mappings default_hparams may hold: each supplies every key its own
\* optimizer choice consumes.
DefaultMappings ==
    { HparamsPoint("adam", {}, 1, 1, "avg", 32, 64, 1),
      HparamsPoint("adam", {"momentum", "learning_rate_decay"}, 2, 0, "flatten", 32, 32, 1),
      HparamsPoint("sgd", {}, 0, 2, "max", 64, 64, 1),
      HparamsPoint("rmsprop", {}, 1, 1, "avg", 32, 64, 1),
      HparamsPoint("rmsprop", {"momentum"}, 2, 1, "flatten", 64, 32, 1) }

\* The mappings default_fixed_hparams may hold: one concrete value per key.
FixedMappings ==
    { HparamsPoint("sgd", {}, 2, 2, "flatten", 64, 128, 5),
      [k \in {"optimizer", "learning_rate", "num_residual_blocks", "sep_num_filters"} |->
          HparamsPoint("adam", {}, 0, 0, "avg", 32, 128, 5)[k]] }

\* A provider builds the mapping for each call: the caller never receives the
\* object the provider holds.
ProviderReturnsFresh == TRUE

----------------------------------------------------------------------------
(* What the callers pass *)

\* (input_shape, num_classes) pairs.
Tasks == { << <<32, 32, 3>>, 10 >>, << <<28, 28, 1>>, 2 >> }

OverrideKeys == {"optimizer", "num_residual_blocks", "num_dense_layers",
                 "dense_merge_type", "conv2d_num_filters", "learning_rate",
                 "momentum", "learning_rate_decay", "mode", "extra"}

OverrideValues(k) ==
    CASE k = "optimizer" -> SupportedOptimizers \cup {"xyz"}
      [] k = "num_residual_blocks" -> 0..MaxBlocks
      [] k = "num_dense_layers" -> 0..MaxDense
      [] k = "dense_merge_type" -> {"flatten", "avg", "max", "flaten"}
      [] k = "conv2d_num_filters" -> {32, 64}
      [] k = "learning_rate" -> {2, 3}
      [] k = "momentum" -> {8}
      [] k = "learning_rate_decay" -> {4}
      [] k = "mode" -> {"fast"}
      [] k = "extra" -> {"junk"}

\* Keyword arguments of a call: at most two keys, any of their values.
Keywords ==
    {EmptyDict}
    \cup UNION { { [k \in {a} |-> v] : v \in OverrideValues(a) } : a \in OverrideKeys }
    \cup UNION { UNION { { [k \in {a, b} |-> IF k = a THEN v ELSE w] :
                             v \in OverrideValues(a), w \in OverrideValues(b) }
                         : b \in OverrideKeys \ {a} } : a \in OverrideKeys }

----------------------------------------------------------------------------
(* functools.partial and Python's argument binding *)

NoPartial == [func |-> "none", args |-> <<>>, keywords |-> EmptyDict]

\* Faulty variant of hyperception: the wrapper of the other model function.
hyperception_wrong_fn(input_shape, num_classes, hparams) ==
    [func |-> "_hyperception_single", args |-> <<input_shape, num_classes>>,
     keywords |-> hparams]

\* return functools.partial(_hyperception, input_shape, num_classes, **hparams)
hyperception(input_shape, num_classes, hparams) ==
    [func |-> "_hyperception", args |-> <<input_shape, num_classes>>,
     keywords |-> hparams]

\* return functools.partial(_hyperception_single, input_shape, num_classes, **hparams)
hyperception_single_fn(input_shape, num_classes, hparams) ==
    [func |-> "_hyperception_single", args |-> <<input_shape, num_classes>>,
     keywords |-> hparams]

\* def _hyperception_single(input_shape, num_classes, mode="full", **hparams):
\* a keyword `mode` binds to the parameter, the rest is collected in hparams.
SingleMode(kw) == IF "mode" \in DOMAIN kw THEN kw["mode"] ELSE "full"

SingleHparams(kw) == Without(kw, {"mode"})

----------------------------------------------------------------------------
(* Hyperparameter resolution *)

\* Faulty variant of Resolve: the defaults are written over the caller's entries.
ResolveDefaultsLast(defaults, hparams) == Update(Update(EmptyDict, hparams), defaults)

\* hp = {}; hp.update(default_hparams(...)); if hparams: hp.update(hparams)
Resolve(defaults, hparams) ==
    LET hp0 == Update(EmptyDict, defaults)
    IN  IF DOMAIN hparams # {} THEN Update(hp0, hparams) ELSE hp0

\* Faulty variant of SingleResolve: the fixed values are written over the caller's entries.
SingleResolveFixedLast(fixed, hparams) == Update(hparams, fixed)

\* hp = default_fixed_hparams(...); hp.update(hparams)
SingleResolve(fixed, hparams) == Update(fixed, hparams)

\* Faulty variant of HeldAfterUpdate: the update is made on the provider's own mapping.
HeldAfterUpdateShared(held, fresh, hparams) == Update(held, hparams)

\* hp.update(hparams) writes into the object default_fixed_hparams returned:
\* the mapping the provider holds changes only when that object is the held one.
HeldAfterUpdate(held, fresh, hparams) == IF fresh THEN held ELSE Update(held, hparams)

\* The keys read into locals under "### Parameters ###", in the order read.
ParameterOrder == << "kernel_size", "initial_strides", "activation", "optimizer",
                     "conv2d_num_filters", "sep_num_filters", "num_residual_blocks",
                     "dense_merge_type", "num_dense_layers", "dropout_rate",
                     "dense_use_bn" >>

\* The first key of `order` that hp lacks, "" when it has them all.
RECURSIVE FirstMissing(_, _)
FirstMissing(hp, order) ==
    IF order = <<>> THEN ""
    ELSE IF Head(order) \notin DOMAIN hp THEN Head(order)
    ELSE FirstMissing(hp, Tail(order))

NoError == [type |-> "none", args |-> <<>>]

KeyError(k) == [type |-> "KeyError", args |-> <<k>>]

----------------------------------------------------------------------------
(* Graph assembly: one node per framework or blocks.py call *)

Input(shape) == [layer |-> "Input", shape |-> shape]

conv(filters, kernel_size, activation, strides) ==
    [layer |-> "conv", filters |-> filters, kernel_size |-> kernel_size,
     activation |-> activation, strides |-> strides]

residual(filters, activation, max_pooling) ==
    [layer |-> "residual", filters |-> filters, activation |-> activation,
     max_pooling |-> max_pooling]

dense(units, activation, batchnorm, dropout_rate) ==
    [layer |-> "dense", units |-> units, activation |-> activation,
     batchnorm |-> batchnorm, dropout_rate |-> dropout_rate]

Dense(units, activation) == [layer |-> "Dense", units |-> units, activation |-> activation]

\* Faulty variant of OutputLayer: the output layer is sized like the exit block.
OutputLayerOfDims(num_classes, dims) == Dense(dims, "softmax")

\* output = layers.Dense(num_classes, activation='softmax')(x)
OutputLayer(num_classes, dims) == Dense(num_classes, "softmax")

\* Faulty variant of Range: one iteration too many.
RangeInclusive(n) == IF n >= 0 THEN n + 1 ELSE 0

\* for _ in range(n): the number of iterations.
Range(n) == IF n > 0 THEN n ELSE 0

\* Faulty variant of ResidualDims: the filter count of the initial convolution is kept.
ResidualDimsOfConv(conv2d_num_filters, sep_num_filters) == conv2d_num_filters

\* dims = sep_num_filters, replacing dims = conv2d_num_filters.
ResidualDims(conv2d_num_filters, sep_num_filters) == sep_num_filters

\* dims *= 2
ExitDims(dims) == dims * 2

\* Faulty variant of Reduction: the two pooling branches are exchanged.
ReductionSwapped(dense_merge_type) ==
    IF dense_merge_type = "flatten" THEN [layer |-> "Flatten"]
    ELSE IF dense_merge_type = "avg" THEN [layer |-> "GlobalMaxPooling2D"]
    ELSE [layer |-> "GlobalAveragePooling2D"]

\* if dense_merge_type == 'flatten' ... elif dense_merge_type == "avg" ... else ...
Reduction(dense_merge_type) ==
    IF dense_merge_type = "flatten" THEN [layer |-> "Flatten"]
    ELSE IF dense_merge_type = "avg" THEN [layer |-> "GlobalAveragePooling2D"]
    ELSE [layer |-> "GlobalMaxPooling2D"]

ReductionLayers == {"Flatten", "GlobalAveragePooling2D", "GlobalMaxPooling2D"}

----------------------------------------------------------------------------
(* Optimizer selection and compilation *)

NoOptimizer == [class |-> "none", kwargs |-> EmptyDict]

Adam(lr) == [class |-> "Adam", kwargs |-> [k \in {"lr"} |-> lr]]

SGD(lr, momentum, decay) ==
    [class |-> "SGD",
     kwargs |-> [k \in {"lr", "momentum", "decay"} |->
                    IF k = "lr" THEN lr ELSE IF k = "momentum" THEN momentum ELSE decay]]

RMSprop(lr, decay) ==
    [class |-> "RMSprop", kwargs |-> [k \in {"lr", "decay"} |-> IF k = "lr" THEN lr ELSE decay]]

ValueError(optimizer) ==
    [type |-> "ValueError", args |-> <<"Optimizer '%s' not supported", optimizer>>]

Raised(error) == [raised |-> error, value |-> NoOptimizer]

Built(obj) == [raised |-> NoError, value |-> obj]

\* Faulty variant of SgdBranch: the momentum is neither read nor passed.
SgdBranchNoMomentum(hp) ==
    IF FirstMissing(hp, <<"learning_rate", "learning_rate_decay">>) # ""
    THEN Raised(KeyError(FirstMissing(hp, <<"learning_rate", "learning_rate_decay">>)))
    ELSE Built([class |-> "SGD",
                kwargs |-> [k \in {"lr", "decay"} |->
                    IF k = "lr" THEN hp["learning_rate"] ELSE hp["learning_rate_decay"]]])

\* elif optimizer == "sgd": lr, momentum, decay are read, then SGD(...)
SgdBranch(hp) ==
    IF FirstMissing(hp, <<"learning_rate", "momentum", "learning_rate_decay">>) # ""
    THEN Raised(KeyError(FirstMissing(hp, <<"learning_rate", "momentum", "learning_rate_decay">>)))
    ELSE Built(SGD(hp["learning_rate"], hp["momentum"], hp["learning_rate_decay"]))

\* if optimizer == "adam": lr is read, then Adam(lr=lr)
AdamBranch(hp) ==
    IF FirstMissing(hp, <<"learning_rate">>) # ""
    THEN Raised(KeyError(FirstMissing(hp, <<"learning_rate">>)))
    ELSE Built(Adam(hp["learning_rate"]))

\* elif optimizer == "rmsprop": lr, decay are read, then RMSprop(...)
RmspropBranch(hp) ==
    IF FirstMissing(hp, <<"learning_rate", "learning_rate_decay">>) # ""
    THEN Raised(KeyError(FirstMissing(hp, <<"learning_rate", "learning_rate_decay">>)))
    ELSE Built(RMSprop(hp["learning_rate"], hp["learning_rate_decay"]))

\* Faulty variant of ElseBranch: an unknown optimizer falls back to Adam.
ElseBranchFallsBack(optimizer, hp) == AdamBranch(hp)

\* else: raise ValueError("Optimizer '%s' not supported", optimizer)
ElseBranch(optimizer, hp) == Raised(ValueError(optimizer))

\* The if/elif chain on the optimizer string.
SelectOptimizer(optimizer, hp) ==
    IF optimizer = "adam" THEN AdamBranch(hp)
    ELSE IF optimizer = "sgd" THEN SgdBranch(hp)
    ELSE IF optimizer = "rmsprop" THEN RmspropBranch(hp)
    ELSE ElseBranch(optimizer, hp)

NoModel == [built |-> FALSE, inputs |-> <<>>, layers |-> <<>>, compiled |-> FALSE,
            optimizer |-> NoOptimizer, loss |-> "", metrics |-> <<>>]

\* model = keras.Model(inputs, output)
Model(inputs, chain) == [built |-> TRUE, inputs |-> inputs, layers |-> chain,
                         compiled |-> FALSE, optimizer |-> NoOptimizer, loss |-> "",
                         metrics |-> <<>>]

\* model.compile(optimizer=optimizer, loss='categorical_crossentropy', metrics=['accuracy'])
Compiled(m, obj) == [m EXCEPT !.compiled = TRUE, !.optimizer = obj,
                              !.loss = "categorical_crossentropy",
                              !.metrics = <<"accuracy">>]

----------------------------------------------------------------------------
(* State *)

VARIABLES
    default_held,   \* the mapping default_hparams holds
    fixed_held,     \* the mapping default_fixed_hparams holds
    held0,          \* history: <<default_held, fixed_held>> of the initial state
    calls_done,     \* history: the calls finished so far, counted up to MaxCalls
    partial,        \* the functools.partial object the caller keeps, or NoPartial
    partial_maker,  \* history: the wrapper that returned it
    caller_kwargs,  \* the keyword mapping the running call was made with
    via,            \* "call": called directly, "partial": through the partial object
    entry,          \* the model function the caller entered
    pc,             \* position of the running call
    input_shape, num_classes, mode,
    single_hparams, \* **hparams of _hyperception_single
    single_hp,      \* hp of _hyperception_single
    hparams,        \* **hparams of _hyperception
    hp,             \* hp of _hyperception
    params,         \* the locals read from hp under "### Parameters ###"
    x,              \* the chain of nodes built so far, the last one being x
    dims,
    optimizer_obj,  \* `optimizer` once rebound to the optimizer object
    model,
    raised,         \* the exception that ended the call, or NoError
    returned        \* the model the call returned, or NoModel

providerVars == <<default_held, fixed_held, held0>>
historyVars == <<calls_done>>
partialVars == <<partial, partial_maker>>
argVars == <<caller_kwargs, via, entry, input_shape, num_classes, mode,
             single_hparams, single_hp, hparams>>
buildVars == <<hp, params, x, dims, optimizer_obj, model, raised, returned>>
vars == <<providerVars, historyVars, partialVars, argVars, pc, buildVars>>

NoLocals ==
    /\ hp = EmptyDict /\ params = EmptyDict /\ x = <<>> /\ dims = 0
    /\ optimizer_obj = NoOptimizer /\ model = NoModel
    /\ raised = NoError /\ returned = NoModel

Init ==
    /\ default_held \in DefaultMappings
    /\ fixed_held \in FixedMappings
    /\ held0 = <<default_held, fixed_held>>
    /\ calls_done = 0
    /\ partial = NoPartial /\ partial_maker = "none"
    /\ caller_kwargs = EmptyDict /\ via = "none" /\ entry = "none"
    /\ pc = "idle"
    /\ input_shape = <<>> /\ num_classes = 0 /\ mode = "none"
    /\ single_hparams = EmptyDict /\ single_hp = EmptyDict /\ hparams = EmptyDict
    /\ NoLocals

----------------------------------------------------------------------------
(* The wrappers *)

\* hyperception(input_shape, num_classes, **hparams)
MakeHyperception ==
    /\ pc = "idle" /\ partial = NoPartial
    /\ \E t \in Tasks, kw \in Keywords :
          partial' = hyperception(t[1], t[2], kw)
    /\ partial_maker' = "hyperception"
    /\ UNCHANGED <<providerVars, historyVars, argVars, pc, buildVars>>

\* hyperception_single_fn(input_shape, num_classes, **hparams)
MakeHyperceptionSingleFn ==
    /\ pc = "idle" /\ partial = NoPartial
    /\ \E t \in Tasks, kw \in Keywords :
          partial' = hyperception_single_fn(t[1], t[2], kw)
    /\ partial_maker' = "hyperception_single_fn"
    /\ UNCHANGED <<providerVars, historyVars, argVars, pc, buildVars>>

\* The caller lets go of the partial object.
DropPartial ==
    /\ pc = "idle" /\ partial # NoPartial
    /\ partial' = NoPartial /\ partial_maker' = "none"
    /\ UNCHANGED <<providerVars, historyVars, argVars, pc, buildVars>>

----------------------------------------------------------------------------
(* Entering a model function *)

\* func(shape, classes, **kw) for func = _hyperception or _hyperception_single.
Enter(func, how, shape, classes, kw) ==
    /\ caller_kwargs' = kw
    /\ via' = how
    /\ entry' = func
    /\ input_shape' = shape
    /\ num_classes' = classes
    /\ IF func = "_hyperception"
       THEN /\ hparams' = kw
            /\ mode' = "none" /\ single_hparams' = EmptyDict
            /\ pc' = "resolve"
       ELSE /\ mode' = SingleMode(kw)
            /\ single_hparams' = SingleHparams(kw)
            /\ hparams' = EmptyDict
            /\ pc' = "single"
    /\ single_hp' = EmptyDict
    /\ UNCHANGED <<providerVars, historyVars, partialVars, buildVars>>

\* _hyperception(input_shape, num_classes, **kw), called directly.
CallHyperception ==
    /\ pc = "idle" /\ partial = NoPartial
    /\ \E t \in Tasks, kw \in Keywords : Enter("_hyperception", "call", t[1], t[2], kw)

\* _hyperception_single(input_shape, num_classes, **kw), called directly.
CallHyperceptionSingle ==
    /\ pc = "idle" /\ partial = NoPartial
    /\ \E t \in Tasks, kw \in Keywords :
          Enter("_hyperception_single", "call", t[1], t[2], kw)

\* model_fn(): the partial object called with no argument.
CallPartial ==
    /\ pc = "idle" /\ partial # NoPartial
    /\ Enter(partial.func, "partial", partial.args[1], partial.args[2], partial.keywords)

----------------------------------------------------------------------------
(* _hyperception_single *)

\* hp = default_fixed_hparams(...); hp.update(hparams);
\* return _hyperception(input_shape=input_shape, num_classes=num_classes, **hp)
HyperceptionSingle ==
    /\ pc = "single"
    /\ single_hp' = SingleResolve(fixed_held, single_hparams)
    /\ fixed_held' = HeldAfterUpdate(fixed_held, ProviderReturnsFresh, single_hparams)
    /\ hparams' = single_hp'
    /\ pc' = "resolve"
    /\ UNCHANGED <<default_held, held0, historyVars, partialVars, caller_kwargs, via, entry,
                   input_shape, num_classes, mode, single_hparams, buildVars>>

----------------------------------------------------------------------------
(* _hyperception *)

\* Lines 61-64: the resolved mapping.
ResolveHparams ==
    /\ pc = "resolve"
    /\ hp' = Resolve(default_held, hparams)
    /\ pc' = "parameters"
    /\ UNCHANGED <<providerVars, historyVars, partialVars, argVars, params, x, dims,
                   optimizer_obj, model, raised, returned>>

\* Lines 69-91: the locals are read from hp; an absent key raises KeyError.
ReadParameters ==
    /\ pc = "parameters"
    /\ IF FirstMissing(hp, ParameterOrder) # ""
       THEN /\ raised' = KeyError(FirstMissing(hp, ParameterOrder))
            /\ pc' = "raised"
            /\ UNCHANGED params
       ELSE /\ params' = [k \in ArchKeys |-> hp[k]]
            /\ pc' = "input"
            /\ UNCHANGED raised
    /\ UNCHANGED <<providerVars, historyVars, partialVars, argVars, hp, x, dims,
                   optimizer_obj, model, returned>>

\* Lines 95-96: inputs = keras.Input(shape=input_shape); x = inputs
BuildInput ==
    /\ pc = "input"
    /\ x' = <<Input(input_shape)>>
    /\ pc' = "conv"
    /\ UNCHANGED <<providerVars, historyVars, partialVars, argVars, hp, params, dims,
                   optimizer_obj, model, raised, returned>>

\* Lines 99-104: the initial convolution, then dims = sep_num_filters.
InitialConv ==
    /\ pc = "conv"
    /\ x' = Append(x, conv(params["conv2d_num_filters"], params["kernel_size"],
                           params["activation"], params["initial_strides"]))
    /\ dims' = ResidualDims(params["conv2d_num_filters"], params["sep_num_filters"])
    /\ pc' = "residual"
    /\ UNCHANGED <<providerVars, historyVars, partialVars, argVars, hp, params,
                   optimizer_obj, model, raised, returned>>

\* The residual blocks built so far: the nodes after the input and the convolution.
ResidualBuilt == Len(x) - 2

\* Lines 105-106: one pass of the loop over range(num_residual_blocks).
ResidualBlock ==
    /\ pc = "residual"
    /\ ResidualBuilt < Range(params["num_residual_blocks"])
    /\ x' = Append(x, residual(dims, params["activation"], FALSE))
    /\ UNCHANGED <<providerVars, historyVars, partialVars, argVars, pc, hp, params, dims,
                   optimizer_obj, model, raised, returned>>

\* Lines 109-110: the loop is over; dims *= 2 and the downsampling block.
ExitBlock ==
    /\ pc = "residual"
    /\ ResidualBuilt >= Range(params["num_residual_blocks"])
    /\ dims' = ExitDims(dims)
    /\ x' = Append(x, residual(dims', params["activation"], TRUE))
    /\ pc' = "merge"
    /\ UNCHANGED <<providerVars, historyVars, partialVars, argVars, hp, params,
                   optimizer_obj, model, raised, returned>>

\* Lines 112-117: the reduction node.
Merge ==
    /\ pc = "merge"
    /\ x' = Append(x, Reduction(params["dense_merge_type"]))
    /\ pc' = "dense"
    /\ UNCHANGED <<providerVars, historyVars, partialVars, argVars, hp, params, dims,
                   optimizer_obj, model, raised, returned>>

\* The dense blocks built so far: the nodes at the end of the chain.
DenseBuilt == Cardinality({i \in 1..Len(x) : x[i].layer = "dense"})

\* Lines 120-122: one pass of the loop over range(num_dense_layers).
DenseBlock ==
    /\ pc = "dense"
    /\ DenseBuilt < Range(params["num_dense_layers"])
    /\ x' = Append(x, dense(num_classes, params["activation"], params["dense_use_bn"],
                            params["dropout_rate"]))
    /\ UNCHANGED <<providerVars, historyVars, partialVars, argVars, pc, hp, params, dims,
                   optimizer_obj, model, raised, returned>>

\* Lines 123-124: the loop is over; the output layer and keras.Model(inputs, output).
BuildOutput ==
    /\ pc = "dense"
    /\ DenseBuilt >= Range(params["num_dense_layers"])
    /\ x' = Append(x, OutputLayer(num_classes, dims))
    /\ model' = Model(x[1], x')
    /\ pc' = "optimizer"
    /\ UNCHANGED <<providerVars, historyVars, partialVars, argVars, hp, params, dims,
                   optimizer_obj, raised, returned>>

\* Lines 126-139: the optimizer object, or the exception of the branch taken.
BuildOptimizer ==
    /\ pc = "optimizer"
    /\ LET r == SelectOptimizer(params["optimizer"], hp)
       IN  /\ raised' = r.raised
           /\ optimizer_obj' = r.value
           /\ pc' = IF r.raised = NoError THEN "compile" ELSE "raised"
    /\ UNCHANGED <<providerVars, historyVars, partialVars, argVars, hp, params, x, dims,
                   model, returned>>

\* Lines 141-144: model.compile(...)
Compile ==
    /\ pc = "compile"
    /\ model' = Compiled(model, optimizer_obj)
    /\ pc' = "return"
    /\ UNCHANGED <<providerVars, historyVars, partialVars, argVars, hp, params, x, dims,
                   optimizer_obj, raised, returned>>

\* Line 146: return model
Return ==
    /\ pc = "return"
    /\ returned' = model
    /\ pc' = "returned"
    /\ UNCHANGED <<providerVars, historyVars, partialVars, argVars, hp, params, x, dims,
                   optimizer_obj, model, raised>>

\* The call is over (a model or an exception reached the caller): its frame is gone.
Finish ==
    /\ pc \in {"returned", "raised"}
    /\ pc' = "idle"
    /\ caller_kwargs' = EmptyDict /\ via' = "none" /\ entry' = "none"
    /\ input_shape' = <<>> /\ num_classes' = 0 /\ mode' = "none"
    /\ single_hparams' = EmptyDict /\ single_hp' = EmptyDict /\ hparams' = EmptyDict
    /\ hp' = EmptyDict /\ params' = EmptyDict /\ x' = <<>> /\ dims' = 0
    /\ optimizer_obj' = NoOptimizer /\ model' = NoModel
    /\ raised' = NoError /\ returned' = NoModel
    /\ calls_done' = IF calls_done < MaxCalls THEN calls_done + 1 ELSE calls_done
    /\ UNCHANGED <<providerVars, partialVars>>

Next ==
    \/ MakeHyperception
    \/ MakeHyperceptionSingleFn
    \/ DropPartial
    \/ CallHyperception
    \/ CallHyperceptionSingle
    \/ CallPartial
    \/ HyperceptionSingle
    \/ ResolveHparams
    \/ ReadParameters
    \/ BuildInput
    \/ InitialConv
    \/ ResidualBlock
    \/ ExitBlock
    \/ Merge
    \/ DenseBlock
    \/ BuildOutput
    \/ BuildOptimizer
    \/ Compile
    \/ Return
    \/ Finish

Spec == Init /\ [][Next]_vars

----------------------------------------------------------------------------
(* Positions of the running call *)

\* _hyperception has resolved hp (lines 61-64 are done).
Resolved == pc \notin {"idle", "single", "resolve"}

\* The locals of "### Parameters ###" are read.
ParametersRead == Resolved /\ DOMAIN params # {}

\* The optimizer branch has produced its optimizer object.
OptimizerBuilt == pc \in {"compile", "return", "returned"}

\* The position in x of the downsampling residual block, 0 before it is built.
ExitIndex ==
    IF \E i \in 1..Len(x) : x[i].layer = "residual" /\ x[i].max_pooling
    THEN CHOOSE i \in 1..Len(x) : x[i].layer = "residual" /\ x[i].max_pooling
    ELSE 0

\* The positions in x of the reduction nodes.
ReductionIndexes == {i \in 1..Len(x) : x[i].layer \in ReductionLayers}

\* The kind of a node: its layer, the downsampling block and the reduction
\* nodes told apart.
Kind(node) ==
    IF node.layer = "residual" THEN (IF node.max_pooling THEN "exit" ELSE "residual")
    ELSE IF node.layer \in ReductionLayers THEN "reduction"
    ELSE node.layer

\* n copies of k.
Copies(n, k) == [i \in 1..n |-> k]

\* The kinds of the chain of a model with n residual and m dense blocks.
ChainKinds(n, m) ==
    <<"Input", "conv">> \o Copies(n, "residual") \o <<"exit", "reduction">>
        \o Copies(m, "dense") \o <<"Dense">>

IsPrefix(s, t) == Len(s) <= Len(t) /\ \A i \in 1..Len(s) : s[i] = t[i]

----------------------------------------------------------------------------
(* Claims *)

\* C1: once _hyperception has resolved hp from the default mapping D and the
\* overrides O it received, the keys of hp are keys(D) \cup keys(O), hp[k] = O[k]
\* for every k of O, hp[k] = D[k] for every other k of D; a key D does not
\* know is kept with the caller's value.
C1_ResolutionMergesOverridesOverDefaults ==
    Resolved =>
        /\ DOMAIN hp = DOMAIN default_held \cup DOMAIN hparams
        /\ \A k \in DOMAIN hparams : hp[k] = hparams[k]
        /\ \A k \in DOMAIN default_held \ DOMAIN hparams : hp[k] = default_held[k]

\* C1 witness: a direct call resolved with an unknown key and an override that
\* collides with a different default.
C1_Witness ==
    /\ pc = "parameters" /\ entry = "_hyperception"
    /\ "extra" \in DOMAIN hparams /\ "extra" \notin DOMAIN default_held
    /\ "optimizer" \in DOMAIN hparams
    /\ hparams["optimizer"] # default_held["optimizer"]
    /\ hp["extra"] = "junk"

\* C2: a resolved optimizer outside "adam", "sgd", "rmsprop" ends the call with
\* a ValueError carrying that string, with no model compiled or returned; a
\* call never passes the optimizer branch with such a value, and ValueError is
\* raised for no other reason (every other exception is a KeyError).
C2_UnsupportedOptimizerRaisesValueError ==
    /\ OptimizerBuilt => hp["optimizer"] \in SupportedOptimizers
    /\ pc = "raised" =>
          /\ raised.type \in {"ValueError", "KeyError"}
          /\ ~model.compiled /\ returned = NoModel
          /\ raised.type = "ValueError" <=> hp["optimizer"] \notin SupportedOptimizers
          /\ raised.type = "ValueError" => raised.args[2] = hp["optimizer"]

\* C2 witness: the call ended on the overridden optimizer "xyz".
C2_Witness ==
    /\ pc = "raised" /\ raised.type = "ValueError"
    /\ hp["optimizer"] = "xyz" /\ raised.args[2] = "xyz"
    /\ model.built

\* C3: the optimizer object is built from exactly the sub-parameters of the
\* selected variant (Adam: learning_rate alone; SGD: learning_rate, momentum,
\* learning_rate_decay; RMSprop: learning_rate, learning_rate_decay); a
\* KeyError names a sub-parameter of the selected variant that hp lacks and
\* leaves no model returned; Adam never fails for want of momentum or decay;
\* a returned model is compiled with that one optimizer, categorical
\* cross-entropy and the accuracy metric.
C3_OptimizerReadsItsOwnSubParameters ==
    /\ OptimizerBuilt =>
          /\ SubKeys(hp["optimizer"]) \subseteq DOMAIN hp
          /\ hp["optimizer"] = "adam" =>
                /\ optimizer_obj = Adam(hp["learning_rate"])
                /\ DOMAIN optimizer_obj.kwargs = {"lr"}
          /\ hp["optimizer"] = "sgd" =>
                optimizer_obj = SGD(hp["learning_rate"], hp["momentum"],
                                    hp["learning_rate_decay"])
          /\ hp["optimizer"] = "rmsprop" =>
                optimizer_obj = RMSprop(hp["learning_rate"], hp["learning_rate_decay"])
    /\ (pc = "raised" /\ raised.type = "KeyError" /\ ParametersRead) =>
          /\ raised.args[1] \in SubKeys(hp["optimizer"]) \ DOMAIN hp
          /\ returned = NoModel /\ ~model.compiled
    /\ (pc = "raised" /\ ParametersRead /\ hp["optimizer"] \in SupportedOptimizers) =>
          ~(SubKeys(hp["optimizer"]) \subseteq DOMAIN hp)
    /\ pc = "returned" =>
          /\ returned.compiled
          /\ returned.optimizer = optimizer_obj /\ optimizer_obj # NoOptimizer
          /\ returned.loss = "categorical_crossentropy"
          /\ returned.metrics = <<"accuracy">>

\* C3 witness: a model returned with Adam from a mapping that has neither
\* momentum nor learning_rate_decay, the learning rate being the caller's.
C3_Witness ==
    /\ pc = "returned" /\ hp["optimizer"] = "adam"
    /\ "momentum" \notin DOMAIN hp /\ "learning_rate_decay" \notin DOMAIN hp
    /\ "learning_rate" \in DOMAIN hparams
    /\ returned.optimizer.kwargs["lr"] = hparams["learning_rate"]

\* C4: no reduction node before the downsampling block is followed by one;
\* from then on exactly one, right after the downsampling block and before
\* every dense block: Flatten for "flatten", GlobalAveragePooling2D for "avg",
\* GlobalMaxPooling2D for any other value; the choice raises nothing (a call
\* whose parameters were read only fails once the model is built).
C4_ExactlyOneReductionNode ==
    ParametersRead =>
        /\ pc \in {"input", "conv", "residual", "merge"} => ReductionIndexes = {}
        /\ pc \in {"dense", "optimizer", "compile", "return", "returned", "raised"} =>
              /\ Cardinality(ReductionIndexes) = 1
              /\ \A i \in ReductionIndexes :
                    /\ i = ExitIndex + 1 /\ ExitIndex > 0
                    /\ \A j \in 1..Len(x) : x[j].layer \in {"dense", "Dense"} => j > i
                    /\ x[i].layer =
                          IF params["dense_merge_type"] = "flatten" THEN "Flatten"
                          ELSE IF params["dense_merge_type"] = "avg"
                               THEN "GlobalAveragePooling2D"
                          ELSE "GlobalMaxPooling2D"
        /\ pc = "raised" => model.built

\* C4 witness: a model returned for the misspelt merge type, reduced by
\* global max pooling.
C4_Witness ==
    /\ pc = "returned" /\ params["dense_merge_type"] = "flaten"
    /\ \E i \in 1..Len(x) : x[i].layer = "GlobalMaxPooling2D"

\* C5: with N = num_residual_blocks and M = num_dense_layers, the chain is at
\* every moment a prefix of input, convolution, N residual blocks, the
\* downsampling block, the reduction node, M dense blocks, the softmax layer;
\* the model is built from the whole chain, and compiled only after that.
C5_LayersInFixedOrderAndCounts ==
    ParametersRead =>
        LET kinds == [i \in 1..Len(x) |-> Kind(x[i])]
            whole == ChainKinds(params["num_residual_blocks"], params["num_dense_layers"])
        IN  /\ IsPrefix(kinds, whole)
            /\ model.built => kinds = whole /\ model.layers = x
            /\ model.compiled => model.built
            /\ pc = "optimizer" => model.built

\* C5 witness: a model returned with no residual block and no dense block:
\* input, convolution, downsampling block, reduction, softmax layer.
C5_Witness ==
    /\ pc = "returned"
    /\ params["num_residual_blocks"] = 0 /\ params["num_dense_layers"] = 0
    /\ Len(returned.layers) = 5

\* C6: a returned model takes input of the input_shape argument and ends in a
\* softmax Dense layer of num_classes units, whatever the hyperparameters; and
\* _hyperception called with no override never raises.
C6_ModelShapeFollowsArguments ==
    /\ pc = "returned" =>
          /\ returned.inputs = Input(input_shape)
          /\ returned.layers[1] = Input(input_shape)
          /\ returned.layers[Len(returned.layers)] = Dense(num_classes, "softmax")
    /\ (entry = "_hyperception" /\ DOMAIN hparams = {}) => pc # "raised"

\* C6 witness: a model returned to a direct call with no override, its
\* defaults asking for no dense block.
C6_Witness ==
    /\ pc = "returned" /\ entry = "_hyperception" /\ via = "call"
    /\ DOMAIN hparams = {}
    /\ hp["num_dense_layers"] = 0
    /\ returned.layers[Len(returned.layers)].units = num_classes

\* C7: while the partial object made by hyperception is only held, nothing
\* is built; called with no argument it runs _hyperception on the captured
\* input_shape, num_classes and hyperparameters, resolving as a direct call
\* with those values does, and the partial object stays as it was made.
C7_PartialDefersTheSameCall ==
    /\ (partial # NoPartial /\ pc = "idle") => NoLocals
    /\ (via = "partial" /\ partial_maker = "hyperception") =>
          /\ partial = hyperception(input_shape, num_classes, caller_kwargs)
          /\ entry = "_hyperception"
          /\ hparams = partial.keywords
          /\ Resolved => hp = Resolve(default_held, partial.keywords)
          /\ pc = "returned" => returned.inputs = Input(partial.args[1])

\* C7 witness: the partial object of hyperception, made with overrides, has
\* been called a second time and returned a model.
C7_Witness ==
    /\ via = "partial" /\ partial_maker = "hyperception" /\ pc = "returned"
    /\ DOMAIN partial.keywords # {}
    /\ calls_done >= 1

\* C8 as stated: the downsampling block has twice the filters of the node
\* built right before it.
C8_ExitDoublesPrecedingStage ==
    ExitIndex > 0 => x[ExitIndex].filters = 2 * x[ExitIndex - 1].filters

\* C8 amended: the downsampling block has twice sep_num_filters; that is
\* twice the filters of the node before it when that node is a residual block
\* (num_residual_blocks >= 1) or when conv2d_num_filters = sep_num_filters.
C8_ExitDoublesSepNumFilters ==
    ExitIndex > 0 =>
        /\ x[ExitIndex].filters = 2 * params["sep_num_filters"]
        /\ (x[ExitIndex - 1].layer = "residual"
              \/ params["conv2d_num_filters"] = params["sep_num_filters"])
            => x[ExitIndex].filters = 2 * x[ExitIndex - 1].filters

\* C8 witness: the downsampling block built right after the initial
\* convolution, whose filter count differs from sep_num_filters.
C8_Witness ==
    /\ ExitIndex = 3 /\ x[2].layer = "conv"
    /\ params["num_residual_blocks"] = 0
    /\ params["conv2d_num_filters"] # params["sep_num_filters"]

C10_SinglePathPrecedence ==
    (entry = "_hyperception_single" /\ Resolved) =>
        /\ single_hparams = Without(caller_kwargs, {"mode"})
        /\ mode = (IF "mode" \in DOMAIN caller_kwargs THEN caller_kwargs["mode"] ELSE "full")
        /\ "mode" \notin DOMAIN hp
        /\ DOMAIN hp = DOMAIN single_hparams \cup DOMAIN fixed_held \cup DOMAIN default_held
        /\ \A k \in DOMAIN hp :
              hp[k] = IF k \in DOMAIN single_hparams THEN single_hparams[k]
                      ELSE IF k \in DOMAIN fixed_held THEN fixed_held[k]
                      ELSE default_held[k]
        /\ ParametersRead => \A k \in ArchKeys : params[k] = hp[k]

\* C10 witness: a model returned by _hyperception_single called with `mode`
\* and an optimizer override, the merge type coming from the default mapping
\* and the residual block count from the fixed one.
C10_Witness ==
    /\ entry = "_hyperception_single" /\ pc = "returned"
    /\ "mode" \in DOMAIN caller_kwargs /\ mode = "fast"
    /\ "optimizer" \in DOMAIN single_hparams
    /\ "dense_merge_type" \notin DOMAIN fixed_held
    /\ params["dense_merge_type"] = default_held["dense_merge_type"]
    /\ params["num_residual_blocks"] = fixed_held["num_residual_blocks"]
    /\ fixed_held["num_residual_blocks"] # default_held["num_residual_blocks"]

====
